---- MODULE Spec2Model ----
(***************************************************************************)
(* Model of tools/verify_swash_reference.py: the differential verifier     *)
(* that runs the Rust swash reference and the MoonBit port on the same     *)
(* (font, text, size) cases and compares their JSON dumps with _cmp.       *)
(*                                                                         *)
(* Two specifications:                                                     *)
(*   SpecCmp  the comparator _cmp applied to bounded pairs of documents;   *)
(*   Spec     main(): font staging, build, the per-text loop, over several *)
(*            executions sharing the .tmp/fonts scratch directory.         *)
(*                                                                         *)
(* Numbers live on an integer grid (one unit = 1.0) extended with the      *)
(* float specials inf, -inf and nan that json.loads produces; rounding of  *)
(* float arithmetic and integers beyond 2^53 are not modelled.             *)
(***************************************************************************)
EXTENDS FiniteSets, Integers, Sequences, TLC

VARIABLES
    \* ---- _cmp and its arguments ----
    a, b, tol, path, res, prev, runs,
    \* ---- main() ----
    pc,          \* position of main(): "idle" before a run, "done" after exit
    execs,       \* executions of main() started so far
    scratch,     \* .tmp/fonts: file name -> content, kept across executions
    argFont,     \* args.font (NoFont when --font is not given)
    argText,     \* args.text (<<>> when --text is not given)
    font,        \* the font main() works with
    fontLocal,   \* name of the staged copy handed to both producers
    texts, idx,  \* the list being iterated and the 1-based position in it
    rustOut, moonOut,   \* raw stdout of the two producers for the current text
    judged,      \* history: per case checked so far, whether its two outputs
                 \* parse and show no divergence (see Judge)
    okLines,     \* stdout: the texts of the 'OK text=' lines
    errLines,    \* stderr: the failure reports
    procLog,     \* every sub-process run: who, for which case, exit status
    failKind, exitStatus

cmpVars == <<a, b, tol, path, res, prev, runs>>
mainVars == <<pc, execs, scratch, argFont, argText, font, fontLocal, texts, idx,
              rustOut, moonOut, judged, okLines, errLines, procLog,
              failKind, exitStatus>>
vars == <<cmpVars, mainVars>>

(***************************************************************************)
(* Bounds                                                                  *)
(***************************************************************************)
MaxNum == 2          \* finite numbers of the documents are 0..MaxNum
MaxListLen == 2      \* longest list among the enumerated documents
MaxTexts == 2        \* longest --text list
MaxExecs == 2        \* executions of main() sharing one scratch directory
MaxRc == 2           \* sub-process exit statuses are 0..MaxRc

(***************************************************************************)
(* Document values: what json.loads returns                                *)
(***************************************************************************)
Null == [k |-> "null"]
Bool(x) == [k |-> "bool", b |-> x]
Num(x) == [k |-> "num", c |-> "fin", n |-> x]
PInf == [k |-> "num", c |-> "pinf", n |-> 0]
NInf == [k |-> "num", c |-> "ninf", n |-> 0]
NaN == [k |-> "num", c |-> "nan", n |-> 0]
Str(x) == [k |-> "str", s |-> x]
List(xs) == [k |-> "list", items |-> xs]
\* a dict keeps its insertion order, as Python's dict does: a sequence of
\* <<key, value>> pairs with pairwise different keys
Dict(ps) == [k |-> "dict", pairs |-> ps]

\* the keys used in documents, in ascending code-point order (the order of
\* Python's sorted() on str)
KeyOrder == <<"a", "b", "c">>
Keys == {KeyOrder[i] : i \in 1..Len(KeyOrder)}

\* set(d.keys())
KeySet(d) == {d.pairs[i][1] : i \in 1..Len(d.pairs)}
\* d[key]
Get(d, key) == d.pairs[CHOOSE i \in 1..Len(d.pairs) : d.pairs[i][1] = key][2]

RECURSIVE SortedFrom(_, _)
SortedFrom(S, i) ==
    IF i > Len(KeyOrder) THEN <<>>
    ELSE IF KeyOrder[i] \in S THEN <<KeyOrder[i]>> \o SortedFrom(S, i + 1)
    ELSE SortedFrom(S, i + 1)

\* sorted(ak)
Sorted(S) == SortedFrom(S, 1)

(***************************************************************************)
(* Comparison paths: "$", then ".key" or "[index]" segments                *)
(***************************************************************************)
KeySeg(key) == [t |-> "key", key |-> key, i |-> 0]
IdxSeg(i) == [t |-> "idx", key |-> "", i |-> i]
RootPath == << [t |-> "root", key |-> "$", i |-> 0] >>
\* f"{path}.{k}"
PathKey(p, key) == Append(p, KeySeg(key))
\* f"{path}[{i}]", i counted from 0 as enumerate does
PathIdx(p, i) == Append(p, IdxSeg(i))

(***************************************************************************)
(* float arithmetic of lines 173-175                                       *)
(***************************************************************************)
\* isinstance(x, (int, float)): bool is a subclass of int in Python
IsNumber(x) == x.k \in {"num", "bool"}

\* float(x) for an int, float or bool
ToFloat(x) == IF x.k = "bool" THEN Num(IF x.b THEN 1 ELSE 0) ELSE x

\* x - y on floats
FSub(x, y) ==
    IF x.c = "nan" \/ y.c = "nan" THEN NaN
    ELSE IF x.c = "fin" /\ y.c = "fin" THEN Num(x.n - y.n)
    ELSE IF x.c = y.c THEN NaN
    ELSE IF x.c = "pinf" \/ y.c = "ninf" THEN PInf
    ELSE NInf

\* abs(x)
FAbs(x) ==
    IF x.c = "ninf" THEN PInf
    ELSE IF x.c = "fin" THEN Num(IF x.n < 0 THEN -x.n ELSE x.n)
    ELSE x

\* x <= y on floats: false whenever a nan is involved
FLe(x, y) ==
    IF x.c = "nan" \/ y.c = "nan" THEN FALSE
    ELSE IF x.c = "ninf" \/ y.c = "pinf" THEN TRUE
    ELSE IF x.c = "pinf" \/ y.c = "ninf" THEN FALSE
    ELSE x.n <= y.n

FLt(x, y) == FLe(x, y) /\ ~FLe(y, x)

\* abs(af - bf) <= tol
WithinTol(x, y, t) == FLe(FAbs(FSub(ToFloat(x), ToFloat(y))), t)

(***************************************************************************)
(* _cmp                                                                    *)
(***************************************************************************)
None == [k |-> "none"]
Match == [ok |-> TRUE, kind |-> "match", path |-> <<>>, ref |-> None, moon |-> None]
Mismatch(kind, p, r, m) == [ok |-> FALSE, kind |-> kind, path |-> p, ref |-> r, moon |-> m]

KeysDifferMutant(ak, bk) == ~(ak \subseteq bk)
\* ak != bk
KeysDiffer(ak, bk) == ak # bk

\* a == b for a pair that is neither two dicts, two lists nor two numbers
PyEq(x, y) ==
    IF x.k # y.k THEN FALSE
    ELSE IF x.k = "str" THEN x.s = y.s
    ELSE IF x.k = "null" THEN TRUE
    ELSE x = y

RECURSIVE Cmp(_, _, _, _)
RECURSIVE CmpKeys(_, _, _, _, _)
RECURSIVE CmpItems(_, _, _, _, _)

\* the loop of lines 159-163 over the remaining sorted keys ks
CmpKeysMutant(x, y, ks, t, p) ==
    IF ks = <<>> THEN Match
    ELSE LET r == Cmp(Get(x, Head(ks)), Get(y, Head(ks)), t, PathKey(p, Head(ks)))
             rest == CmpKeys(x, y, Tail(ks), t, p)
         IN  IF ~rest.ok THEN rest ELSE r
CmpKeys(x, y, ks, t, p) ==
    IF ks = <<>> THEN Match
    ELSE LET r == Cmp(Get(x, Head(ks)), Get(y, Head(ks)), t, PathKey(p, Head(ks)))
         IN  IF ~r.ok THEN r ELSE CmpKeys(x, y, Tail(ks), t, p)

\* the loop of lines 167-171 from 1-based position i on
CmpItems(x, y, i, t, p) ==
    IF i > Len(x.items) THEN Match
    ELSE LET r == Cmp(x.items[i], y.items[i], t, PathIdx(p, i - 1))
         IN  IF ~r.ok THEN r ELSE CmpItems(x, y, i + 1, t, p)

\* lines 172-180: the pair is neither two dicts nor two lists
LeafCmp(x, y, t, p) ==
    IF IsNumber(x) /\ IsNumber(y) THEN
        IF WithinTol(x, y, t) THEN Match
        ELSE Mismatch("number", p, x, y)
    ELSE IF PyEq(x, y) THEN Match
    ELSE Mismatch("value", p, x, y)

Cmp(x, y, t, p) ==
    IF x.k = "dict" /\ y.k = "dict" THEN
        IF KeysDiffer(KeySet(x), KeySet(y))
        THEN Mismatch("key", p, [keys |-> Sorted(KeySet(x))], [keys |-> Sorted(KeySet(y))])
        ELSE CmpKeys(x, y, Sorted(KeySet(x)), t, p)
    ELSE IF x.k = "list" /\ y.k = "list" THEN
        IF Len(x.items) # Len(y.items)
        THEN Mismatch("length", p, [len |-> Len(x.items)], [len |-> Len(y.items)])
        ELSE CmpItems(x, y, 1, t, p)
    ELSE LeafCmp(x, y, t, p)

(***************************************************************************)
(* The documents and tolerances the comparator is applied to               *)
(***************************************************************************)
FiniteNums == {Num(n) : n \in 0..MaxNum}
Leaves == FiniteNums \cup {Null, Bool(TRUE), Bool(FALSE), Str("a"), Str("b"), PInf, NInf, NaN}
ListElems == FiniteNums \cup {Bool(TRUE)}
DictElems == {Num(0), Num(1)}

SeqsUpTo(S, n) == UNION {[1..m -> S] : m \in 0..n}
Lists == {List(xs) : xs \in SeqsUpTo(ListElems, MaxListLen)}
Dicts ==
    {Dict(<<>>)}
    \cup {Dict(<< <<k1, v1>> >>) : k1 \in Keys, v1 \in DictElems}
    \cup {Dict(<< <<kk[1], vv[1]>>, <<kk[2], vv[2]>> >>) :
            kk \in {q \in Keys \X Keys : q[1] # q[2]}, vv \in DictElems \X DictElems}
Glyph(x, y) == Dict(<< <<"a", x>>, <<"b", y>> >>)
Nested ==
    {Dict(<< <<"c", List(<<Glyph(Num(0), x)>>)>> >>) : x \in FiniteNums}
    \cup {List(<<List(<<x>>), y>>) : x \in DictElems, y \in DictElems}
    \cup {List(<<PInf, x>>) : x \in DictElems}
    \cup {Glyph(Bool(TRUE), x) : x \in DictElems \cup {Bool(FALSE)}}
    \cup {List(<<Num(1), Num(2), Num(3)>>), List(<<NaN>>), List(<<Str("a"), Null>>),
          Dict(<< <<"a", List(<<>>)>> >>), Dict(<< <<"a", Dict(<<>>)>> >>)}
Docs == Leaves \cup Lists \cup Dicts \cup Nested

\* --tol is any float argparse accepts; the claims are about tol >= 0
Tols == {Num(-1), Num(0), Num(1), PInf}
TolOk(t) == FLe(Num(0), t)
BasePaths == {RootPath, PathKey(RootPath, "b")}

Pending == [ok |-> FALSE, kind |-> "pending", path |-> <<>>, ref |-> None, moon |-> None]

(***************************************************************************)
(* main(): idle values used while only the comparator is exercised         *)
(***************************************************************************)
NoFont == [path |-> "", name |-> "", content |-> 0]
MainIdle ==
    /\ pc = "idle"
    /\ execs = 0
    /\ scratch = [nm \in {} |-> 0]
    /\ argFont = NoFont
    /\ argText = <<>>
    /\ font = NoFont
    /\ fontLocal = ""
    /\ texts = <<>>
    /\ idx = 0
    /\ rustOut = None
    /\ moonOut = None
    /\ judged = <<>>
    /\ okLines = <<>>
    /\ errLines = <<>>
    /\ procLog = <<>>
    /\ failKind = "none"
    /\ exitStatus = -1

(***************************************************************************)
(* SpecCmp: _cmp applied to every pair of documents                        *)
(***************************************************************************)
InitCmp ==
    /\ a \in Docs
    /\ b \in Docs
    /\ tol \in Tols
    /\ path \in BasePaths
    /\ res = Pending
    /\ prev = Pending
    /\ runs = 0
    /\ MainIdle

\* ok, msg = _cmp(a, b, tol=tol, path=path)
Compare ==
    /\ runs = 0
    /\ res' = Cmp(a, b, tol, path)
    /\ prev' = res
    /\ runs' = 1
    /\ UNCHANGED <<a, b, tol, path, mainVars>>

\* the same call made a second time on the same two trees
CompareAgain ==
    /\ runs = 1
    /\ res' = Cmp(a, b, tol, path)
    /\ prev' = res
    /\ runs' = 2
    /\ UNCHANGED <<a, b, tol, path, mainVars>>

NextCmp == Compare \/ CompareAgain
SpecCmp == InitCmp /\ [][NextCmp]_vars

(***************************************************************************)
(* Positions inside a document, used to state the comparator's properties  *)
(***************************************************************************)
RECURSIVE ValueAt(_, _)
ValueAt(d, q) ==
    IF q = <<>> THEN d
    ELSE IF Head(q).t = "key" THEN ValueAt(Get(d, Head(q).key), Tail(q))
    ELSE ValueAt(d.items[Head(q).i + 1], Tail(q))

RECURSIVE ReplaceAt(_, _, _)
ReplaceAt(d, q, y) ==
    IF q = <<>> THEN y
    ELSE IF Head(q).t = "key" THEN
        Dict([i \in 1..Len(d.pairs) |->
                IF d.pairs[i][1] = Head(q).key
                THEN <<d.pairs[i][1], ReplaceAt(d.pairs[i][2], Tail(q), y)>>
                ELSE d.pairs[i]])
    ELSE List([i \in 1..Len(d.items) |->
                IF i = Head(q).i + 1 THEN ReplaceAt(d.items[i], Tail(q), y)
                ELSE d.items[i]])

\* the positions of the int/float leaves of d (booleans are not numbers here)
RECURSIVE NumLeafPos(_)
NumLeafPos(d) ==
    IF d.k = "dict" THEN
        UNION {{<<KeySeg(key)>> \o q : q \in NumLeafPos(Get(d, key))} : key \in KeySet(d)}
    ELSE IF d.k = "list" THEN
        UNION {{<<IdxSeg(i - 1)>> \o q : q \in NumLeafPos(d.items[i])} : i \in 1..Len(d.items)}
    ELSE IF d.k = "num" THEN {<<>>}
    ELSE {}

NumValues == FiniteNums \cup {PInf, NInf, NaN}

RECURSIVE Flatten(_)
Flatten(ss) == IF ss = <<>> THEN <<>> ELSE Head(ss) \o Flatten(Tail(ss))

\* every divergence of the two trees in traversal order, without stopping at
\* the first: container check at the container's own path, then the children
\* by ascending key or ascending index
RECURSIVE AllMismatches(_, _, _, _)
AllMismatches(x, y, t, p) ==
    IF x.k = "dict" /\ y.k = "dict" THEN
        IF KeySet(x) # KeySet(y)
        THEN << Mismatch("key", p, [keys |-> SortedFrom(KeySet(x), 1)],
                                   [keys |-> SortedFrom(KeySet(y), 1)]) >>
        ELSE LET ks == SortedFrom(KeySet(x), 1)
             IN  Flatten([i \in 1..Len(ks) |->
                    AllMismatches(Get(x, ks[i]), Get(y, ks[i]), t, Append(p, KeySeg(ks[i])))])
    ELSE IF x.k = "list" /\ y.k = "list" THEN
        IF Len(x.items) # Len(y.items)
        THEN << Mismatch("length", p, [len |-> Len(x.items)], [len |-> Len(y.items)]) >>
        ELSE Flatten([i \in 1..Len(x.items) |->
                    AllMismatches(x.items[i], y.items[i], t, Append(p, IdxSeg(i - 1)))])
    ELSE LET r == LeafCmp(x, y, t, p) IN IF r.ok THEN <<>> ELSE <<r>>

ReversePairs(d) == Dict([i \in 1..Len(d.pairs) |-> d.pairs[Len(d.pairs) + 1 - i]])

(***************************************************************************)
(* Raw producer output and json.loads                                      *)
(***************************************************************************)
RawBad == [k |-> "bad"]                            \* text that is not JSON
RawNum(n, e) == [k |-> "numlit", n |-> n, e |-> e]  \* the literal n or "n"e"e"
RawArr(xs) == [k |-> "arr", items |-> xs]
RawObj(ps) == [k |-> "obj", pairs |-> ps]          \* members as written

RECURSIVE Pow10(_)
Pow10(e) == IF e = 0 THEN 1 ELSE 10 * Pow10(e - 1)

\* float("<n>e<e>") for a one-digit n: beyond the largest double
\* (about 1.797e308) the result is +-inf
LoadsNum(n, e) ==
    IF n # 0 /\ (e > 308 \/ (e = 308 /\ (n >= 2 \/ n <= -2)))
    THEN (IF n > 0 THEN PInf ELSE NInf)
    ELSE Num(n * Pow10(e))

\* d[key] = v on an insertion-ordered dict
Put(ps, key, v) ==
    IF \E i \in 1..Len(ps) : ps[i][1] = key
    THEN [i \in 1..Len(ps) |-> IF ps[i][1] = key THEN <<key, v>> ELSE ps[i]]
    ELSE Append(ps, <<key, v>>)

RECURSIVE WellFormed(_)
WellFormed(raw) ==
    IF raw.k = "bad" THEN FALSE
    ELSE IF raw.k = "arr" THEN \A i \in 1..Len(raw.items) : WellFormed(raw.items[i])
    ELSE IF raw.k = "obj" THEN \A i \in 1..Len(raw.pairs) : WellFormed(raw.pairs[i][2])
    ELSE TRUE

RECURSIVE Loads(_)
RECURSIVE LoadsPairs(_, _)
\* the members of an object from left to right: a repeated key keeps its
\* first position and takes the last value
LoadsPairs(ps, acc) ==
    IF ps = <<>> THEN acc
    ELSE LoadsPairs(Tail(ps), Put(acc, Head(ps)[1], Loads(Head(ps)[2])))
\* json.loads on well-formed text
Loads(raw) ==
    IF raw.k = "numlit" THEN LoadsNum(raw.n, raw.e)
    ELSE IF raw.k = "arr" THEN List([i \in 1..Len(raw.items) |-> Loads(raw.items[i])])
    ELSE IF raw.k = "obj" THEN Dict(LoadsPairs(raw.pairs, <<>>))
    ELSE raw

RawOuts ==
    { RawBad,
      RawObj(<< <<"a", RawNum(0, 0)>>, <<"b", RawNum(1, 0)>> >>),
      RawObj(<< <<"b", RawNum(1, 0)>>, <<"a", RawNum(1, 0)>>, <<"a", RawNum(0, 0)>> >>),
      RawObj(<< <<"a", RawNum(0, 0)>>, <<"b", RawNum(2, 0)>> >>),
      RawArr(<< RawNum(1, 999) >>) }

(***************************************************************************)
(* Command line and file system main() runs against                        *)
(***************************************************************************)
\* --font values: two different files that share their file name
FontArgs ==
    { [path |-> "/x/A.ttf", name |-> "A.ttf", content |-> 1],
      [path |-> "/y/A.ttf", name |-> "A.ttf", content |-> 2] }
\* _pick_default_font's candidates, in order
Candidates ==
    << [path |-> "/System/Library/Fonts/Supplemental/Arial.ttf",
        name |-> "Arial.ttf", content |-> 3],
       [path |-> "/System/Library/Fonts/Supplemental/Times New Roman.ttf",
        name |-> "Times New Roman.ttf", content |-> 4],
       [path |-> "/System/Library/Fonts/Geneva.ttf",
        name |-> "Geneva.ttf", content |-> 5] >>
\* which candidates exist on the machine
SysFontSets == {{}, {2, 3}}

TextVals == {"a", "b"}
TextArgs == SeqsUpTo(TextVals, MaxTexts)
DefaultTexts == <<"abc", "Hello, world!", "AV">>
MainTols == {Num(0), Num(1)}
Rcs == 0..MaxRc

\* the two raw outputs of a case judged without main()'s control flow: both
\* are JSON and the two documents show no divergence anywhere
Judge(r, m, t) ==
    /\ WellFormed(r)
    /\ WellFormed(m)
    /\ AllMismatches(Loads(r), Loads(m), t, RootPath) = <<>>

(***************************************************************************)
(* main()                                                                  *)
(***************************************************************************)
Err(kind, t, rc, msg, dump) ==
    [kind |-> kind, text |-> t, rc |-> rc, font |-> font.path, msg |-> msg, dump |-> dump]
Proc(who, case, rc) ==
    [who |-> who, case |-> case, rc |-> rc,
     staged |-> IF fontLocal \in DOMAIN scratch THEN scratch[fontLocal] ELSE 0]

\* raise SystemExit(...)
Exit(status, kind, errs) ==
    /\ pc' = "done"
    /\ exitStatus' = status
    /\ failKind' = kind
    /\ errLines' = errLines \o errs

RequireOkStatusMutant(rc) == 1
\* _require_ok: raise SystemExit(p.returncode)
RequireOkStatus(rc) == rc

FirstExistingFrom(ex, i) ==
    LET js == {j \in i..Len(Candidates) : j \in ex}
    IN  CHOOSE j \in js : \A m \in js : j <= m

OkWrittenMutant(ok, lines, t) == Append(lines, t)
\* line 226 is reached only when the comparison succeeded
OkWritten(ok, lines, t) == IF ok THEN Append(lines, t) ELSE lines

LoopExhaustedMutant(i, ts) == i >= Len(ts) - 1
\* the for loop of line 204 ends after the last text
LoopExhausted(i, ts) == i = Len(ts)

AfterCasePcMutant == "build"
\* the next iteration of the loop starts with the reference run
AfterCasePc == "rust"

\* the process has exited: nothing but .tmp/fonts outlives it
ProcessEnd ==
    /\ pc = "done"
    /\ execs < MaxExecs
    /\ pc' = "idle"
    /\ argFont' = NoFont /\ argText' = <<>> /\ tol' = Num(0)
    /\ font' = NoFont /\ fontLocal' = "" /\ texts' = <<>> /\ idx' = 0
    /\ rustOut' = None /\ moonOut' = None /\ judged' = <<>>
    /\ okLines' = <<>> /\ errLines' = <<>> /\ procLog' = <<>>
    /\ failKind' = "none" /\ exitStatus' = -1
    /\ a' = None /\ b' = None /\ res' = Pending
    /\ UNCHANGED <<execs, scratch, path, prev, runs>>

\* args = ap.parse_args() of a new execution; .tmp/fonts is what earlier
\* executions left
ParseArgs ==
    /\ pc = "idle"
    /\ execs < MaxExecs
    /\ execs' = execs + 1
    /\ argFont' \in FontArgs \cup {NoFont}
    /\ argText' \in TextArgs
    /\ tol' \in MainTols
    /\ pc' = "font"
    /\ font' = NoFont /\ fontLocal' = "" /\ texts' = <<>> /\ idx' = 0
    /\ rustOut' = None /\ moonOut' = None /\ judged' = <<>>
    /\ okLines' = <<>> /\ errLines' = <<>> /\ procLog' = <<>>
    /\ failKind' = "none" /\ exitStatus' = -1
    /\ a' = None /\ b' = None /\ res' = Pending
    /\ UNCHANGED <<scratch, path, prev, runs>>

\* lines 192-194
PickFont ==
    /\ pc = "font"
    /\ \/ /\ argFont # NoFont
          /\ font' = argFont
          /\ \/ /\ pc' = "stage"
                /\ UNCHANGED <<exitStatus, failKind, errLines>>
             \/ Exit(1, "nofont", <<Err("nofont", "", 1, None, FALSE)>>)
       \/ /\ argFont = NoFont
          /\ \E ex \in SysFontSets :
                IF \E j \in 1..Len(Candidates) : j \in ex
                THEN /\ font' = Candidates[FirstExistingFrom(ex, 1)]
                     /\ pc' = "stage"
                     /\ UNCHANGED <<exitStatus, failKind, errLines>>
                ELSE /\ font' = NoFont
                     /\ Exit(1, "nofont", <<Err("nofont", "", 1, None, FALSE)>>)
    /\ UNCHANGED <<cmpVars, execs, scratch, argFont, argText, fontLocal, texts, idx,
                   rustOut, moonOut, judged, okLines, procLog>>

\* lines 197-200: _prepare_font reuses a staged file of the same name
PrepareFont ==
    /\ pc = "stage"
    /\ scratch' = IF font.name \in DOMAIN scratch THEN scratch
                  ELSE (font.name :> font.content) @@ scratch
    /\ fontLocal' = font.name
    /\ texts' = IF argText # <<>> THEN argText ELSE DefaultTexts
    /\ pc' = "build"
    /\ UNCHANGED <<cmpVars, execs, argFont, argText, font, idx, rustOut, moonOut,
                   judged, okLines, errLines, procLog, failKind, exitStatus>>

\* line 202, _build_moon_dump
BuildMoonDump ==
    /\ pc = "build"
    /\ \E rc \in Rcs, artifacts \in BOOLEAN :
          /\ procLog' = Append(procLog, Proc("build", 0, rc))
          /\ IF rc # 0
             THEN /\ Exit(RequireOkStatus(rc), "build", <<Err("build", "", rc, None, FALSE)>>)
                  /\ idx' = idx
             ELSE IF ~artifacts
             THEN /\ Exit(1, "artifact", <<Err("artifact", "", 1, None, FALSE)>>)
                  /\ idx' = idx
             ELSE /\ pc' = "rust"
                  /\ idx' = 1
                  /\ UNCHANGED <<exitStatus, failKind, errLines>>
    /\ UNCHANGED <<cmpVars, execs, scratch, argFont, argText, font, fontLocal, texts,
                   rustOut, moonOut, judged, okLines>>

\* line 205, _run_rust_dump
RunRustDump ==
    /\ pc = "rust"
    /\ \E checkout \in BOOLEAN, rc \in Rcs, out \in RawOuts :
          IF ~checkout
          THEN /\ Exit(1, "noref", <<Err("noref", texts[idx], 1, None, FALSE)>>)
               /\ UNCHANGED <<procLog, rustOut>>
          ELSE /\ procLog' = Append(procLog, Proc("rust", idx, rc))
               /\ IF rc # 0
                  THEN /\ Exit(RequireOkStatus(rc), "rust", <<Err("rust", texts[idx], rc, None, FALSE)>>)
                       /\ UNCHANGED rustOut
                  ELSE /\ rustOut' = out
                       /\ pc' = "moon"
                       /\ UNCHANGED <<exitStatus, failKind, errLines>>
    /\ UNCHANGED <<cmpVars, execs, scratch, argFont, argText, font, fontLocal, texts,
                   idx, moonOut, judged, okLines>>

\* line 206, _run_moon_dump
RunMoonDump ==
    /\ pc = "moon"
    /\ \E rc \in Rcs, out \in RawOuts :
          /\ procLog' = Append(procLog, Proc("moon", idx, rc))
          /\ IF rc # 0
             THEN /\ Exit(RequireOkStatus(rc), "moon", <<Err("moon", texts[idx], rc, None, FALSE)>>)
                  /\ UNCHANGED moonOut
             ELSE /\ moonOut' = out
                  /\ pc' = "check"
                  /\ UNCHANGED <<exitStatus, failKind, errLines>>
    /\ UNCHANGED <<cmpVars, execs, scratch, argFont, argText, font, fontLocal, texts,
                   idx, rustOut, judged, okLines>>

\* lines 207-226: parse both outputs, compare, report
CheckCase ==
    /\ pc = "check"
    /\ judged' = Append(judged, Judge(rustOut, moonOut, tol))
    /\ IF ~WellFormed(rustOut) \/ ~WellFormed(moonOut)
       THEN /\ IF ~WellFormed(rustOut)      \* rust_out is parsed first
               THEN Exit(1, "parse", <<Err("parse_rust", texts[idx], 1, None, FALSE)>>)
               ELSE Exit(1, "parse", <<Err("parse_moon", texts[idx], 1, None, FALSE)>>)
            /\ UNCHANGED <<a, b, res, okLines, idx>>
       ELSE /\ a' = Loads(rustOut)
            /\ b' = Loads(moonOut)
            /\ res' = Cmp(a', b', tol, RootPath)
            /\ okLines' = OkWritten(res'.ok, okLines, texts[idx])
            /\ IF ~res'.ok
               THEN /\ \E dump \in BOOLEAN :   \* args.dump, read only here
                          Exit(1, "mismatch", <<Err("mismatch", texts[idx], 1, res', dump)>>)
                    /\ idx' = idx
               ELSE IF LoopExhausted(idx, texts)
               THEN /\ pc' = "done"
                    /\ exitStatus' = 0
                    /\ idx' = idx
                    /\ UNCHANGED <<failKind, errLines>>
               ELSE /\ pc' = AfterCasePc
                    /\ idx' = idx + 1
                    /\ UNCHANGED <<exitStatus, failKind, errLines>>
    /\ UNCHANGED <<tol, path, prev, runs, execs, scratch, argFont, argText, font,
                   fontLocal, texts, rustOut, moonOut, procLog>>

Init ==
    /\ a = None /\ b = None /\ tol = Num(0) /\ path = RootPath
    /\ res = Pending /\ prev = Pending /\ runs = 0
    /\ MainIdle

Next ==
    \/ ProcessEnd
    \/ ParseArgs
    \/ PickFont
    \/ PrepareFont
    \/ BuildMoonDump
    \/ RunRustDump
    \/ RunMoonDump
    \/ CheckCase

Spec == Init /\ [][Next]_vars

(***************************************************************************)
(* Properties of _cmp (checked under SpecCmp)                              *)
(***************************************************************************)

\* C5: reflexivity. For every document a and every tolerance tol >= 0,
\* _cmp(a, a, tol) returns match.
C5_Reflexive ==
    (runs >= 1 /\ TolOk(tol) /\ a = b) => res = Match

\* C6: numeric leaf tolerance. When b is a with one numeric leaf x at position
\* q replaced by a number y, the result is match if abs(x - y) <= tol and a
\* number mismatch at exactly that leaf's path if abs(x - y) > tol.
C6_NumericLeafTolerance ==
    (runs >= 1 /\ TolOk(tol)) =>
        \A q \in NumLeafPos(a) : \A y \in NumValues :
            b = ReplaceAt(a, q, y) =>
                LET d == FAbs(FSub(ValueAt(a, q), y))
                IN  /\ FLe(d, tol) => res = Match
                    /\ FLt(tol, d) => res = Mismatch("number", path \o q, ValueAt(a, q), y)

\* C7: two mappings match iff their key sets are equal and the values under
\* every key match; unequal key sets (either direction) give a key mismatch at
\* the mapping's own path naming both sorted key sets; the insertion order of
\* the keys on either side never changes the result.
C7_MappingByKeySet ==
    (runs >= 1 /\ a.k = "dict" /\ b.k = "dict") =>
        /\ res.ok <=> /\ KeySet(a) = KeySet(b)
                      /\ \A key \in KeySet(a) :
                            Cmp(Get(a, key), Get(b, key), tol, PathKey(path, key)).ok
        /\ KeySet(a) # KeySet(b) =>
              res = Mismatch("key", path, [keys |-> SortedFrom(KeySet(a), 1)],
                                          [keys |-> SortedFrom(KeySet(b), 1)])
        /\ res = Cmp(ReversePairs(a), b, tol, path)
        /\ res = Cmp(a, ReversePairs(b), tol, path)

\* two mappings with the same two keys in opposite insertion order compared
\* equal, and the same first mapping met a key it lacks on the other side
C7_Witness ==
    /\ runs >= 1 /\ a.k = "dict" /\ b.k = "dict" /\ Len(a.pairs) = 2
    /\ b = ReversePairs(a) /\ a # b /\ res = Match

\* C8: when at least one side is a boolean, a string or null, the tolerance
\* plays no part: match iff same kind and identical value; a boolean against
\* a number is a value mismatch at the current path.
C8_ToleranceOnlyForNumbers ==
    (runs >= 1 /\ TolOk(tol) /\ ({a.k, b.k} \cap {"bool", "str", "null"} # {})) =>
        /\ res.ok <=> (a.k = b.k /\ a = b)
        /\ ({a.k, b.k} = {"bool", "num"}) => (res.kind = "value" /\ res.path = path)

\* C9: exactly one mismatch is reported, the first in traversal order
\* (container check first, then children by ascending key / index); [1,2] vs
\* [2,1] is a mismatch at index 0, [1,2] vs [1,2,3] a length mismatch; a
\* second run on the same trees gives the same result.
C9_FirstDivergence ==
    (runs >= 1) =>
        LET all == AllMismatches(a, b, tol, path)
        IN  /\ all = <<>> => res = Match
            /\ all # <<>> => res = Head(all)
            /\ runs = 2 => res = prev
            /\ (a = List(<<Num(1), Num(2)>>) /\ b = List(<<Num(2), Num(1)>>) /\ tol = Num(0))
                  => (~res.ok /\ res.path = PathIdx(path, 0))
            /\ (a = List(<<Num(1), Num(2)>>) /\ b = List(<<Num(1), Num(2), Num(3)>>))
                  => (res.kind = "length" /\ res.path = path)

\* two trees that differ under several keys, compared twice
C9_Witness ==
    /\ runs = 2 /\ a.k = "dict" /\ b.k = "dict"
    /\ Len(AllMismatches(a, b, tol, path)) >= 2
    /\ res = Head(AllMismatches(a, b, tol, path))
    /\ res.path = PathKey(path, "a")

(***************************************************************************)
(* Properties of main() (checked under Spec)                               *)
(***************************************************************************)
IsBuild(e) == e.who = "build"
IsProducer(e) == e.who \in {"rust", "moon"}
BuildLog == SelectSeq(procLog, IsBuild)
Invoked == SelectSeq(procLog, IsProducer)

\* what the two recorded outputs of case j are, judged without main()'s own
\* control flow: both parse and no divergence exists anywhere in the trees
CaseGood(j) == judged[j]

\* every text went through both producers and its outputs parsed and matched
AllCasesGood ==
    /\ texts # <<>>
    /\ Len(judged) = Len(texts)
    /\ \A j \in 1..Len(texts) :
          /\ CaseGood(j)
          /\ \E i \in DOMAIN procLog :
                procLog[i].who = "rust" /\ procLog[i].case = j /\ procLog[i].rc = 0
          /\ \E i \in DOMAIN procLog :
                procLog[i].who = "moon" /\ procLog[i].case = j /\ procLog[i].rc = 0

\* C1: suite short-circuiting. If case i is the first case whose outputs fail
\* to parse or do not compare equal, main has printed an OK line for exactly
\* the cases before i, reports exactly one failure (for case i), has exited
\* with a non-zero status and has run no producer for a case after i.
C1_ShortCircuit ==
    \A i \in 1..Len(judged) :
        (~CaseGood(i) /\ \A j \in 1..(i - 1) : CaseGood(j)) =>
            /\ pc = "done"
            /\ okLines = SubSeq(texts, 1, i - 1)
            /\ Len(errLines) = 1
            /\ errLines[1].kind \in {"parse_rust", "parse_moon", "mismatch"}
            /\ errLines[1].text = texts[i]
            /\ exitStatus > 0
            /\ \A n \in DOMAIN procLog : procLog[n].case <= i

\* the second of the three default texts failed after the first passed
C1_Witness ==
    /\ pc = "done" /\ Len(texts) = 3 /\ Len(judged) = 2
    /\ CaseGood(1) /\ ~CaseGood(2)
    /\ okLines = <<texts[1]>> /\ Len(Invoked) = 4

\* C2: the build step runs exactly once per suite execution, successfully
\* and before the first producer run, and never again between or after
\* cases. (A suite execution begins at line 202, once the font is staged.)
C2_BuildOnce ==
    /\ Len(BuildLog) <= 1
    /\ \A i \in DOMAIN procLog : IsBuild(procLog[i]) => i = 1
    /\ \A i \in DOMAIN procLog :
          IsProducer(procLog[i]) => (i > 1 /\ IsBuild(procLog[1]) /\ procLog[1].rc = 0)
    /\ (pc \in {"rust", "moon", "check"} \/ (pc = "done" /\ fontLocal # ""))
          => Len(BuildLog) = 1

\* a finished execution that ran two cases or more
C2_Witness ==
    /\ pc = "done" /\ Len(Invoked) >= 4 /\ Len(okLines) >= 2 /\ Len(BuildLog) = 1

\* C3: a sub-process ending with a non-zero status s is the last one started,
\* and main has exited with status s; after a failed build no producer ran,
\* after a failed reference run the candidate did not run for that case.
C3_FailingSubprocess ==
    \A i \in DOMAIN procLog :
        procLog[i].rc # 0 =>
            /\ i = Len(procLog)
            /\ pc = "done"
            /\ exitStatus = procLog[i].rc
            /\ IsBuild(procLog[i]) => Invoked = <<>>
            /\ procLog[i].who = "rust" =>
                  ~\E n \in DOMAIN procLog :
                      procLog[n].who = "moon" /\ procLog[n].case = procLog[i].case

\* the reference run of the second case exited with status 2
C3_Witness ==
    /\ pc = "done" /\ exitStatus = 2 /\ procLog # <<>>
    /\ procLog[Len(procLog)].who = "rust" /\ procLog[Len(procLog)].case = 2
    /\ procLog[Len(procLog)].rc = 2

\* C4 as stated: exit status 0 iff every text ran through both producers and
\* matched; status 1 exactly when a mismatch or parse failure was found; a
\* failed build step exits with the sub-process's status rather than 1.
C4_ExitStatusAsStated ==
    pc = "done" =>
        /\ exitStatus = 0 <=> AllCasesGood
        /\ exitStatus = 1 <=> \E j \in 1..Len(judged) : ~CaseGood(j)
        /\ failKind \in {"build", "artifact"} =>
              (BuildLog # <<>> /\ exitStatus = BuildLog[1].rc /\ exitStatus # 1)

\* C4 amended: exit status 0 iff every text ran through both producers and
\* matched; a mismatch or parse failure gives status 1; a failed sub-process
\* gives its own status (which may be 1); a missing font, build artifact or
\* reference checkout gives status 1 as well.
C4_ExitStatus ==
    pc = "done" =>
        /\ exitStatus = 0 <=> AllCasesGood
        /\ (\E j \in 1..Len(judged) : ~CaseGood(j)) => exitStatus = 1
        /\ \A i \in DOMAIN procLog : procLog[i].rc # 0 => exitStatus = procLog[i].rc
        /\ failKind \in {"nofont", "artifact", "noref"} => exitStatus = 1

\* a run of two texts or more that ended with status 0
C4_Witness ==
    /\ pc = "done" /\ exitStatus = 0 /\ Len(texts) >= 2 /\ Len(okLines) = Len(texts)

\* C10: the staged file handed to both producers in a run has the content of
\* the font passed to that run, also when an earlier run used another font
\* file of the same name.
C10_StagedFontIsTheFontPassed ==
    \A i \in DOMAIN procLog :
        IsProducer(procLog[i]) => procLog[i].staged = font.content

====
